---- MODULE Spec2Model ----
(***************************************************************************)
(* Model of backend/app.py: the WebSocket ConnectionManager (registry and  *)
(* broadcast fan-out), the /ws handler, and the decision logic of the      *)
(* /api/moderate and /api/sentiment endpoints.                             *)
(*                                                                         *)
(* Each /ws handler is a coroutine on one event loop.  A step of the model *)
(* runs a handler from one suspension point (an await) to the next, so the *)
(* code between two awaits is atomic, as it is under asyncio.              *)
(***************************************************************************)
EXTENDS Integers, Sequences, FiniteSets, TLC

(***************************************************************************)
(* Bounds of the model.                                                    *)
(***************************************************************************)
NumConns == 2
MaxFanouts == 1

Conns == 1..NumConns

NoConn == 0

(***************************************************************************)
(* Inbound frames.  A frame is the text receive_text() returns; json.loads *)
(* turns it into a dict (kind "object"), into a JSON value that is no dict *)
(* (kind "nonobject": a list, a number, a string), or raises (kind         *)
(* "notjson").  Absent marks a key the dict does not have.  The fan-out   *)
(* never reads the payload, so the server is run on one object frame.      *)
(***************************************************************************)
Absent == "<absent>"

null == "null"

ObjectFrames ==
    { [kind |-> "object", type |-> Absent, content |-> "hi", user |-> "bob"] }

MalformedFrames ==
    { [kind |-> "notjson", type |-> Absent, content |-> Absent, user |-> Absent],
      [kind |-> "nonobject", type |-> Absent, content |-> Absent, user |-> Absent] }

Frames == ObjectFrames \cup MalformedFrames

VARIABLES
    active_connections,  \* manager.active_connections: the registry, a list
    pc,                  \* the position of each connection's /ws handler
    client_state,        \* the transport state of each WebSocket handle
    idx,                 \* per handler: the list iterator of its broadcast
    message,             \* per handler: the dict its broadcast is sending
    now,                 \* the wall clock datetime.now() reads
    fanouts,             \* history: one record per broadcast call, with the
                         \* send_json calls that succeeded, in order
    sendFailed,          \* history: handles a send_json to which has failed
    joined,              \* history: every handle ever appended, in order
    call,                \* a call of one operation with drawn inputs, when
                         \* the operation is checked on its own
    result               \* what that call returned

wsvars == <<active_connections, pc, client_state, idx, message, now,
            fanouts, sendFailed, joined>>

callvars == <<call, result>>

NoMessage == [type |-> Absent, content |-> Absent, timestamp |-> 0, user |-> Absent]

NoCall == [fn |-> "none"]

NoResult == [done |-> FALSE]

(***************************************************************************)
(* Python list operations.                                                 *)
(***************************************************************************)
Range(s) == { s[i] : i \in 1..Len(s) }

IndexOf(s, x) == CHOOSE i \in 1..Len(s) : s[i] = x /\ \A j \in 1..(i - 1) : s[j] # x

\* list.remove(x): drops the first occurrence, raises ValueError when absent.
ListRemove(s, x) ==
    IF x \in Range(s)
    THEN [list |-> SubSeq(s, 1, IndexOf(s, x) - 1) \o SubSeq(s, IndexOf(s, x) + 1, Len(s)),
          raised |-> FALSE]
    ELSE [list |-> s, raised |-> TRUE]

\* ConnectionManager.disconnect(websocket)
disconnect(list, websocket) == ListRemove(list, websocket)

\* dict.get(key, default)
DictGet(value, default) == IF value = Absent THEN default ELSE value

\* Mutant of OutboundMessage: a frame without a type is replaced by the
\* defaults as a whole.
OutboundMessage_AllOrNothing(frame, t) ==
    IF frame.type = Absent
    THEN [type |-> "message", content |-> null, timestamp |-> t, user |-> "Anonymous"]
    ELSE [type |-> frame.type,
          content |-> DictGet(frame.content, null),
          timestamp |-> t,
          user |-> DictGet(frame.user, "Anonymous")]

\* The dict websocket_endpoint builds from a parsed frame at clock value t.
OutboundMessage(frame, t) ==
    [type |-> DictGet(frame.type, "message"),
     content |-> DictGet(frame.content, null),
     timestamp |-> t,
     user |-> DictGet(frame.user, "Anonymous")]

(***************************************************************************)
(* Positions of a handler.  "accept": in manager.connect, before accept()  *)
(* has returned.  "recv": suspended in receive_text().  "send": suspended  *)
(* in a send_json of its broadcast.  A handler that has ended is "done"    *)
(* when it returned from the except clause, and otherwise names the call   *)
(* whose exception ended it: accept(), json.loads/message.get, send_json   *)
(* or list.remove.                                                         *)
(***************************************************************************)
Raised == {"failed_accept", "failed_parse", "failed_send", "failed_remove"}

Terminated == {"done"} \cup Raised

(***************************************************************************)
(* Initial state: the registry is empty and no handshake has completed.    *)
(* pc "accept" is a handler that has not got past "await accept()" yet,    *)
(* whether or not its client has arrived.                                  *)
(***************************************************************************)
WsInit ==
    /\ active_connections = << >>
    /\ pc = [c \in Conns |-> "accept"]
    /\ client_state = [c \in Conns |-> "CONNECTING"]
    /\ idx = [c \in Conns |-> 0]
    /\ message = [c \in Conns |-> NoMessage]
    /\ now = 0
    /\ fanouts = << >>
    /\ sendFailed = {}
    /\ joined = << >>

(***************************************************************************)
(* History bookkeeping.  A fan-out is one call of manager.broadcast.       *)
(***************************************************************************)
\* The record opened when handler c starts a broadcast of m.
NewFanout(c, m) ==
    [sender |-> c,
     msg |-> m,
     snapshot |-> active_connections,
     dead |-> { x \in Range(active_connections) : client_state[x] # "CONNECTED" },
     quiet |-> TRUE,
     status |-> "running",
     failedTo |-> NoConn,
     recv |-> << >>]

\* The broadcast handler c is in the middle of.
CurrentFan(fs, c) == CHOOSE f \in 1..Len(fs) : fs[f].sender = c /\ fs[f].status = "running"

\* A registration, an unregistration or a transport change happened: the
\* fan-outs that are running at that moment are no longer undisturbed.
Disturb(fs) ==
    [f \in 1..Len(fs) |->
        IF fs[f].status = "running" THEN [fs[f] EXCEPT !.quiet = FALSE] ELSE fs[f]]

(***************************************************************************)
(* ConnectionManager                                                       *)
(***************************************************************************)
\* Mutant of connect: the handle is appended before the handshake is known
\* to have succeeded.
connect_AppendBeforeAccept(list, websocket, accepted) == Append(list, websocket)

\* Mutant of connect: the handle is appended on both sides of the await.
connect_AppendTwice(list, websocket, accepted) ==
    IF accepted THEN Append(Append(list, websocket), websocket) ELSE list

\* connect(websocket): await websocket.accept(), then append.  When accept
\* raises, the append is never reached.
connect(list, websocket, accepted) ==
    IF accepted THEN Append(list, websocket) ELSE list

\* Mutant of IterNext: the list is walked from its newest entry.
IterNext_Reversed(list, i) == IF i <= Len(list) THEN list[Len(list) - i + 1] ELSE NoConn

\* Mutant of IterNext: the position is off by one after the first entry.
IterNext_Repeat(list, i) ==
    IF i <= Len(list) THEN list[IF i = 1 THEN 1 ELSE i - 1] ELSE NoConn

\* The list iterator of "for connection in self.active_connections": it
\* reads the live list at its position, and ends when the position is past
\* the end of the list as it is at that moment.
IterNext(list, i) == IF i <= Len(list) THEN list[i] ELSE NoConn

\* Mutant of SendJson: the timestamp is taken again at every send.
SendJson_Restamped(connection, m) ==
    [to |-> connection, msg |-> [m EXCEPT !.timestamp = now]]

\* connection.send_json(message) on an open transport: what the peer gets.
SendJson(connection, m) == [to |-> connection, msg |-> m]

\* The exceptions a send_json on a closed transport raises: the framework
\* raises WebSocketDisconnect or a RuntimeError, depending on its version
\* and on how the transport was closed.
SendErrors == {"WebSocketDisconnect", "RuntimeError"}

(***************************************************************************)
(* broadcast, from one suspension point to the next.  Handler c resumes at *)
(* list position i with the fan-out history fs and the clock at t.  The    *)
(* loop either ends (the handler goes back to receive_text), or sends to   *)
(* the next connection and suspends in that send, or the send raises: the  *)
(* exception leaves broadcast and reaches websocket_endpoint, whose except *)
(* clause handles WebSocketDisconnect by unregistering ITS OWN websocket;  *)
(* any other exception ends the handler with the registry untouched.  The  *)
(* server closes the transport of a handler that has ended.                *)
(***************************************************************************)
broadcast(c, i, m, fs, t) ==
    LET f == CurrentFan(fs, c)
        connection == IterNext(active_connections, i)
    IN  IF connection = NoConn
        THEN /\ pc' = [pc EXCEPT ![c] = "recv"]
             /\ idx' = [idx EXCEPT ![c] = 0]
             /\ fanouts' = [fs EXCEPT ![f].status = "complete"]
             /\ now' = t
             /\ UNCHANGED <<active_connections, client_state, sendFailed, joined, callvars>>
        ELSE IF client_state[connection] = "CONNECTED"
        THEN /\ fanouts' = [fs EXCEPT ![f].recv = Append(@, SendJson(connection, m))]
             /\ pc' = [pc EXCEPT ![c] = "send"]
             /\ idx' = [idx EXCEPT ![c] = i + 1]
             /\ now' = t + 1
             /\ UNCHANGED <<active_connections, client_state, sendFailed, joined, callvars>>
        ELSE \E exc \in SendErrors :
             LET r == disconnect(active_connections, c)
                 caught == exc = "WebSocketDisconnect"
             IN  /\ sendFailed' = sendFailed \cup {connection}
                 /\ active_connections' = IF caught THEN r.list ELSE active_connections
                 /\ pc' = [pc EXCEPT ![c] = IF ~caught THEN "failed_send"
                                            ELSE IF r.raised THEN "failed_remove"
                                            ELSE "done"]
                 /\ client_state' = [client_state EXCEPT ![c] = "DISCONNECTED"]
                 /\ idx' = [idx EXCEPT ![c] = 0]
                 /\ fanouts' = Disturb([fs EXCEPT ![f].status = "aborted",
                                                  ![f].failedTo = connection])
                 /\ now' = t
                 /\ UNCHANGED <<joined, callvars>>

(***************************************************************************)
(* websocket_endpoint                                                      *)
(***************************************************************************)
\* accept() returns: the handle is appended and the receive loop starts.
AcceptOk(c) ==
    /\ pc[c] = "accept"
    /\ active_connections' = connect(active_connections, c, TRUE)
    /\ client_state' = [client_state EXCEPT ![c] = "CONNECTED"]
    /\ pc' = [pc EXCEPT ![c] = "recv"]
    /\ joined' = Append(joined, c)
    /\ fanouts' = Disturb(fanouts)
    /\ UNCHANGED <<idx, message, now, sendFailed, callvars>>

\* accept() raises (the peer went away during the handshake): the handler
\* ends before the append and before the try block.
AcceptFail(c) ==
    /\ pc[c] = "accept"
    /\ active_connections' = connect(active_connections, c, FALSE)
    /\ client_state' = [client_state EXCEPT ![c] = "DISCONNECTED"]
    /\ pc' = [pc EXCEPT ![c] = "failed_accept"]
    /\ UNCHANGED <<idx, message, now, fanouts, sendFailed, joined, callvars>>

\* The peer closes the connection (or the transport breaks) while the
\* handler is suspended in receive_text or in a send.
PeerClose(c) ==
    /\ pc[c] \in {"recv", "send"}
    /\ client_state[c] = "CONNECTED"
    /\ client_state' = [client_state EXCEPT ![c] = "DISCONNECTED"]
    /\ fanouts' = Disturb(fanouts)
    /\ UNCHANGED <<active_connections, pc, idx, message, now, sendFailed, joined, callvars>>

\* Mutant of ReceiveWithin: the next frame is read while the broadcast of
\* the previous one is still suspended in a send, as if broadcast were
\* started as a task of its own.
ReceiveWithin_WhileSending(c, frame, limit) ==
    /\ pc[c] \in {"recv", "send"}
    /\ client_state[c] = "CONNECTED"
    /\ frame.kind = "object"
    /\ Len(fanouts) < limit
    /\ LET m == OutboundMessage(frame, now)
       IN  /\ message' = [message EXCEPT ![c] = m]
           /\ broadcast(c, 1, m, Append(fanouts, NewFanout(c, m)), now + 1)

\* receive_text() returns a frame that json.loads parses into a dict: the
\* outbound dict is built and broadcast starts, up to its first send.  The
\* clients send at most `limit` such frames in all.
ReceiveWithin(c, frame, limit) ==
    /\ pc[c] = "recv"
    /\ client_state[c] = "CONNECTED"
    /\ frame.kind = "object"
    /\ Len(fanouts) < limit
    /\ LET m == OutboundMessage(frame, now)
       IN  /\ message' = [message EXCEPT ![c] = m]
           /\ broadcast(c, 1, m, Append(fanouts, NewFanout(c, m)), now + 1)

ReceiveObject(c, frame) == ReceiveWithin(c, frame, MaxFanouts)

\* The same, with one frame more allowed to a connection that has sent all
\* the frames so far: the case of one sender's consecutive messages.
ReceiveSame(c, frame) ==
    ReceiveWithin(c, frame,
                  IF \A f \in 1..Len(fanouts) : fanouts[f].sender = c
                  THEN MaxFanouts + 1 ELSE MaxFanouts)

\* receive_text() returns a frame that is not JSON (json.loads raises
\* JSONDecodeError) or is JSON but no dict (message.get raises
\* AttributeError while the outbound dict is built).  Neither exception is
\* a WebSocketDisconnect: the handler ends, nothing is broadcast, and the
\* handle stays in the registry.
ReceiveMalformed(c, frame) ==
    /\ pc[c] = "recv"
    /\ client_state[c] = "CONNECTED"
    /\ frame.kind # "object"
    /\ pc' = [pc EXCEPT ![c] = "failed_parse"]
    /\ client_state' = [client_state EXCEPT ![c] = "DISCONNECTED"]
    /\ fanouts' = Disturb(fanouts)
    /\ UNCHANGED <<active_connections, idx, message, now, sendFailed, joined, callvars>>

\* receive_text() raises WebSocketDisconnect: the except clause unregisters
\* the handle and the handler returns.
ReceiveDisconnect(c) ==
    /\ pc[c] = "recv"
    /\ client_state[c] = "DISCONNECTED"
    /\ LET r == disconnect(active_connections, c)
       IN  /\ active_connections' = r.list
           /\ pc' = [pc EXCEPT ![c] = IF r.raised THEN "failed_remove" ELSE "done"]
    /\ fanouts' = Disturb(fanouts)
    /\ UNCHANGED <<client_state, idx, message, now, sendFailed, joined, callvars>>

\* A send of the handler's broadcast returns: the loop goes on.
SendReturn(c) ==
    /\ pc[c] = "send"
    /\ message' = message
    /\ broadcast(c, idx[c], message[c], fanouts, now)

WsNext ==
    \/ \E c \in Conns : AcceptOk(c)
    \/ \E c \in Conns : AcceptFail(c)
    \/ \E c \in Conns : PeerClose(c)
    \/ \E c \in Conns, frame \in Frames : ReceiveObject(c, frame)
    \/ \E c \in Conns, frame \in Frames : ReceiveMalformed(c, frame)
    \/ \E c \in Conns : ReceiveDisconnect(c)
    \/ \E c \in Conns : SendReturn(c)

vars == <<wsvars, callvars>>

\* The server: the registry and the /ws handlers.
Init ==
    /\ WsInit
    /\ call = NoCall
    /\ result = NoResult

Next == WsNext

Spec == Init /\ [][Next]_vars

\* The server under the event loop's scheduling: a handler whose await can
\* complete is resumed.  receive_text() on a closed transport raises, and a
\* send_json returns or raises; frames, closes and handshakes are the
\* clients' doing and are not forced.
Fairness ==
    \A c \in Conns :
        /\ WF_vars(ReceiveDisconnect(c))
        /\ WF_vars(SendReturn(c))

SpecFair == Init /\ [][Next]_vars /\ Fairness

\* The server when one connection may send a frame more than the others.
NextFifo ==
    \/ \E c \in Conns : AcceptOk(c)
    \/ \E c \in Conns : AcceptFail(c)
    \/ \E c \in Conns : PeerClose(c)
    \/ \E c \in Conns, frame \in Frames : ReceiveSame(c, frame)
    \/ \E c \in Conns, frame \in Frames : ReceiveMalformed(c, frame)
    \/ \E c \in Conns : ReceiveDisconnect(c)
    \/ \E c \in Conns : SendReturn(c)

SpecFifo == Init /\ [][NextFifo]_vars

TypeOK ==
    /\ Range(active_connections) \subseteq Conns
    /\ pc \in [Conns -> {"accept", "recv", "send"} \cup Terminated]
    /\ client_state \in [Conns -> {"CONNECTING", "CONNECTED", "DISCONNECTED"}]
    /\ Len(fanouts) <= MaxFanouts

(***************************************************************************)
(* ConnectionManager.disconnect on its own: one call on every registry     *)
(* list and handle within the bounds.  The lists are those the server      *)
(* builds: a handle is appended once, so no list holds a handle twice.     *)
(***************************************************************************)
MaxHandles == 4

Handles == 1..MaxHandles

RegistryLists ==
    { s \in UNION { [1..n -> Handles] : n \in 0..MaxHandles } :
        \A i, j \in 1..Len(s) : s[i] = s[j] => i = j }

DisconnectCalls ==
    { [fn |-> "disconnect", list |-> l, websocket |-> w] :
        l \in RegistryLists, w \in Handles }

CallDisconnect ==
    /\ call.fn = "disconnect"
    /\ ~result.done
    /\ LET r == disconnect(call.list, call.websocket)
       IN  result' = [done |-> TRUE, list |-> r.list, raised |-> r.raised]
    /\ UNCHANGED <<call, wsvars>>

InitRegistry ==
    /\ WsInit
    /\ call \in DisconnectCalls
    /\ result = NoResult

NextRegistry == CallDisconnect

SpecRegistry == InitRegistry /\ [][NextRegistry]_vars

(***************************************************************************)
(* /api/moderate on its own.  The toxicity model is a black box: what it   *)
(* would return for the request's text is drawn with the request.  A score *)
(* is a number of ten-thousandths, so 0.7 is 7000 and 1.0 is 10000; the    *)
(* displayed confidence is a number of thousandths.                        *)
(***************************************************************************)
MaxTextLen == 2

Threshold == 7000

MaxModelInput == 512

Scores == 0..(Threshold + 3000)

Texts == UNION { [1..n -> {"x"}] : n \in 0..MaxTextLen }

ToxicityLabels == {"toxic"}

Min(a, b) == IF a <= b THEN a ELSE b

\* text[:512]
Truncate(text) == SubSeq(text, 1, Min(Len(text), MaxModelInput))

\* round(score, 3): the nearest thousandth.  A score halfway between two
\* thousandths goes to either, depending on the binary value of the float.
Round3(score) ==
    IF score % 10 < 5 THEN {score \div 10}
    ELSE IF score % 10 > 5 THEN {score \div 10 + 1}
    ELSE {score \div 10, score \div 10 + 1}

\* Mutant of IsToxic: the threshold is compared with the displayed value.
IsToxic_Rounded(score) == \A shown \in Round3(score) : shown * 10 > Threshold

\* result['score'] > 0.7
IsToxic(score) == score > Threshold

\* Mutant of moderate_content: the model is called before the text is
\* tested for emptiness.
moderate_content_ScoreFirst(data, scored, confidence) ==
    LET text == IF data.has_text THEN data.text ELSE << >>
    IN  IF text = << >>
        THEN [done |-> TRUE, kind |-> "error", error |-> "No text provided",
              model_input |-> << Truncate(text) >>]
        ELSE [done |-> TRUE, kind |-> "ok",
              is_toxic |-> IsToxic(scored.score),
              confidence |-> confidence,
              label |-> scored.label,
              text_length |-> Len(text),
              model_input |-> << Truncate(text) >>]

\* moderate_content(data), with `scored` what toxicity_model returns for the
\* truncated text and `confidence` the rounded score.
moderate_content(data, scored, confidence) ==
    LET text == IF data.has_text THEN data.text ELSE << >>
    IN  IF text = << >>
        THEN [done |-> TRUE, kind |-> "error", error |-> "No text provided",
              model_input |-> << >>]
        ELSE [done |-> TRUE, kind |-> "ok",
              is_toxic |-> IsToxic(scored.score),
              confidence |-> confidence,
              label |-> scored.label,
              text_length |-> Len(text),
              model_input |-> << Truncate(text) >>]

ModerateCalls ==
    { [fn |-> "moderate", data |-> [has_text |-> h, text |-> t],
       scored |-> [label |-> l, score |-> sc]] :
        h \in BOOLEAN, t \in Texts, l \in ToxicityLabels, sc \in Scores }

CallModerate ==
    /\ call.fn = "moderate"
    /\ ~result.done
    /\ \E confidence \in Round3(call.scored.score) :
         result' = moderate_content(call.data, call.scored, confidence)
    /\ UNCHANGED <<call, wsvars>>

(***************************************************************************)
(* /api/sentiment on its own.  The labels are those of the sentiment model *)
(* (POSITIVE, NEGATIVE), the third key of the emoji dict, and labels the   *)
(* dict does not have.  An emoji is written as its code point.             *)
(***************************************************************************)
SentimentLabels == {"POSITIVE", "NEGATIVE", "NEUTRAL", "LABEL_0", "positive"}

SentimentScores == { sc \in Scores : sc % 2500 \in {0, 4, 5} }

EmojiPositive == "U+1F60A"

EmojiNegative == "U+1F620"

EmojiNeutral == "U+1F610"

\* Mutant of SentimentEmoji: the dict is indexed, sentiment_emoji[label],
\* which raises KeyError for a label it does not have.
SentimentEmoji_NoDefault(label) ==
    CASE label = "POSITIVE" -> EmojiPositive
      [] label = "NEGATIVE" -> EmojiNegative
      [] label = "NEUTRAL" -> EmojiNeutral
      [] OTHER -> "KeyError"

\* sentiment_emoji.get(result['label'], neutral)
SentimentEmoji(label) ==
    CASE label = "POSITIVE" -> EmojiPositive
      [] label = "NEGATIVE" -> EmojiNegative
      [] label = "NEUTRAL" -> EmojiNeutral
      [] OTHER -> EmojiNeutral

\* analyze_sentiment(data), with `scored` what sentiment_model returns for
\* the truncated text and `confidence` the rounded score.
analyze_sentiment(data, scored, confidence) ==
    LET text == IF data.has_text THEN data.text ELSE << >>
    IN  IF text = << >>
        THEN [done |-> TRUE, kind |-> "error", error |-> "No text provided",
              model_input |-> << >>]
        ELSE [done |-> TRUE, kind |-> "ok",
              sentiment |-> scored.label,
              confidence |-> confidence,
              emoji |-> SentimentEmoji(scored.label),
              model_input |-> << Truncate(text) >>]

SentimentCalls ==
    { [fn |-> "sentiment", data |-> [has_text |-> h, text |-> t],
       scored |-> [label |-> l, score |-> sc]] :
        h \in BOOLEAN, t \in Texts, l \in SentimentLabels, sc \in SentimentScores }

CallSentiment ==
    /\ call.fn = "sentiment"
    /\ ~result.done
    /\ \E confidence \in Round3(call.scored.score) :
         result' = analyze_sentiment(call.data, call.scored, confidence)
    /\ UNCHANGED <<call, wsvars>>

InitApi ==
    /\ WsInit
    /\ call \in ModerateCalls \cup SentimentCalls
    /\ result = NoResult

NextApi ==
    \/ CallModerate
    \/ CallSentiment

SpecApi == InitApi /\ [][NextApi]_vars

(***************************************************************************)
(* The outbound dict on its own: built from every dict json.loads can      *)
(* return within the bounds, each key absent or present, a present key     *)
(* with a value that differs from its default or equals it.                *)
(***************************************************************************)
MaxClock == 2

AllObjectFrames ==
    [kind : {"object"},
     type : {Absent, "typing", "message"},
     content : {Absent, "hi", null},
     user : {Absent, "bob", "Anonymous"}]

OutboundCalls ==
    { [fn |-> "outbound", frame |-> fr, t |-> t] :
        fr \in AllObjectFrames, t \in 0..MaxClock }

CallOutbound ==
    /\ call.fn = "outbound"
    /\ ~result.done
    /\ result' = [done |-> TRUE, msg |-> OutboundMessage(call.frame, call.t)]
    /\ UNCHANGED <<call, wsvars>>

InitFrame ==
    /\ WsInit
    /\ call \in OutboundCalls
    /\ result = NoResult

NextFrame == CallOutbound

SpecFrame == InitFrame /\ [][NextFrame]_vars

(***************************************************************************)
(* Properties of the registry and of the broadcast fan-out.                *)
(***************************************************************************)
FanIds == 1..Len(fanouts)

Registered == Range(active_connections)

\* The connections fan-out f has delivered to.
Received(f) == { fanouts[f].recv[k].to : k \in 1..Len(fanouts[f].recv) }

\* The connections that were registered and open when fan-out f started.
OpenAtStart(f) == Range(fanouts[f].snapshot) \ fanouts[f].dead

\* C1: in a fan-out over a registry in which exactly one connection is
\* already disconnected (the send to it fails), every other registered open
\* connection still receives the message, wherever the dead one stands.
C1_BroadcastIsolatesDeadConnection ==
    \A f \in FanIds :
        ( /\ fanouts[f].status # "running"
          /\ fanouts[f].quiet
          /\ Cardinality(fanouts[f].dead) = 1 )
        => OpenAtStart(f) \subseteq Received(f)

\* C2: with N connections registered, all open, and no registration or
\* unregistration during the fan-out, one inbound message produces exactly
\* N deliveries, one to each registered connection, the sender included,
\* all carrying the same type, content, user and timestamp.
C2_ExactlyNDeliveries ==
    \A f \in FanIds :
        ( /\ fanouts[f].status # "running"
          /\ fanouts[f].quiet
          /\ fanouts[f].dead = {} )
        => /\ fanouts[f].status = "complete"
           /\ Len(fanouts[f].recv) = Len(fanouts[f].snapshot)
           /\ Received(f) = Range(fanouts[f].snapshot)
           /\ fanouts[f].sender \in Received(f)
           /\ \A k \in 1..Len(fanouts[f].recv) : fanouts[f].recv[k].msg = fanouts[f].msg

\* C2 witness: an undisturbed fan-out over NumConns open connections is over.
C2_Witness ==
    \E f \in FanIds :
        /\ fanouts[f].status = "complete"
        /\ fanouts[f].quiet
        /\ fanouts[f].dead = {}
        /\ Len(fanouts[f].snapshot) = NumConns
        /\ Len(fanouts[f].recv) = NumConns

\* The step in which a send of fan-out f fails.
SendFails(f) ==
    /\ f \in 1..Len(fanouts')
    /\ fanouts'[f].failedTo # NoConn
    /\ (f \in FanIds => fanouts[f].failedTo = NoConn)

\* C3: when a send to a stale connection fails during a fan-out, the
\* failure is caught for that connection only: the sender's handler goes on
\* (it stays in its broadcast or goes back to receive_text), the sender
\* stays registered, and nothing but the failed connection leaves the
\* registry.
C3_SendFailureCaughtPerConnection ==
    [][ \A f \in 1..MaxFanouts :
          SendFails(f) =>
            /\ pc'[fanouts'[f].sender] \in {"send", "recv"}
            /\ fanouts'[f].sender \in Range(active_connections')
            /\ Registered \ Range(active_connections') \subseteq {fanouts'[f].failedTo} ]_vars

\* C4: once the server has detected that a connection is closed (its
\* handler has ended, or a send to it has failed), its handle is no longer
\* in active_connections.
C4_NoDanglingHandle ==
    \A c \in Conns :
        (pc[c] \in Terminated \/ c \in sendFailed) => c \notin Registered

\* C6: a frame that does not parse as a JSON object is dropped without any
\* broadcast, and the sender's connection stays open and registered with
\* its receive loop running.
C6_MalformedFrameDropped ==
    [][ \A c \in Conns :
          (\E frame \in MalformedFrames : ReceiveMalformed(c, frame)) =>
            /\ fanouts' = fanouts
            /\ pc'[c] = "recv"
            /\ client_state'[c] = "CONNECTED"
            /\ c \in Range(active_connections') ]_vars

\* C7: a malformed frame from one connection does not affect the others:
\* the step leaves every other connection registered, and a later broadcast
\* from another connection is delivered to all the connections that were
\* registered and open when it started.
C7_MalformedFrameIsLocal ==
    /\ [][ \A c \in Conns :
             (\E frame \in MalformedFrames : ReceiveMalformed(c, frame)) =>
               Registered \ {c} \subseteq Range(active_connections') ]_vars
    /\ [] (\A f \in FanIds :
             ( /\ fanouts[f].status # "running"
               /\ fanouts[f].quiet
               /\ fanouts[f].dead # {}
               /\ \A x \in fanouts[f].dead : pc[x] = "failed_parse" )
             => OpenAtStart(f) \subseteq Received(f))

\* C8: within one fan-out, deliveries happen in registry insertion order:
\* of two connections that both receive the message, the one registered
\* first receives it first.
C8_DeliveryInInsertionOrder ==
    \A f \in FanIds :
        \A i, j \in 1..Len(fanouts[f].recv) :
            i < j => IndexOf(joined, fanouts[f].recv[i].to)
                       < IndexOf(joined, fanouts[f].recv[j].to)

\* C8 witness: one fan-out has delivered to two different connections.
C8_Witness ==
    \E f \in FanIds :
        /\ Len(fanouts[f].recv) >= 2
        /\ fanouts[f].recv[1].to # fanouts[f].recv[2].to

\* C9: a handle is inserted into the registry only when its handshake has
\* succeeded: a connection whose accept() has failed or has not returned is
\* never in active_connections, and the step that inserts a handle is the
\* one that takes it from Connecting to Open.
C9_RegisteredOnlyAfterHandshake ==
    /\ [] (\A c \in Conns :
             (pc[c] \in {"accept", "failed_accept"} \/ client_state[c] = "CONNECTING")
             => c \notin Registered)
    /\ [][ \A c \in Conns :
             (c \notin Registered /\ c \in Range(active_connections')) =>
               /\ pc[c] = "accept"
               /\ client_state[c] = "CONNECTING"
               /\ client_state'[c] = "CONNECTED" ]_vars

\* C9 witness: one handshake has failed and another connection is registered.
C9_Witness ==
    /\ \E c \in Conns : pc[c] = "failed_accept" /\ c \notin Registered
    /\ \E c \in Conns : c \in Registered /\ client_state[c] = "CONNECTED"

(***************************************************************************)
(* Properties of single operations.                                        *)
(***************************************************************************)
\* Python's [x for x in list if x != websocket]
Without(list, websocket) == SelectSeq(list, LAMBDA x : x # websocket)

\* C5: disconnect of a handle that is not in the registry is a silent
\* no-op (no error, registry unchanged); disconnect of a present handle
\* removes exactly that handle and keeps the order of the others.
C5_DisconnectAbsentIsNoOp ==
    (call.fn = "disconnect" /\ result.done) =>
        /\ ~result.raised
        /\ result.list = Without(call.list, call.websocket)

\* C10: for every non-empty text, is_toxic is true if and only if the raw
\* score is strictly above 0.70: exactly 0.70 gives false, and a raw score
\* above 0.70 that is displayed as 0.7 still gives true.
C10_ToxicIffRawAboveThreshold ==
    (call.fn = "moderate" /\ result.done /\ call.data.has_text /\ call.data.text # << >>) =>
        /\ result.kind = "ok"
        /\ result.is_toxic = (call.scored.score > Threshold)
        /\ (call.scored.score = Threshold => ~result.is_toxic)
        /\ (call.scored.score > Threshold /\ result.confidence * 10 = Threshold
              => result.is_toxic)

\* C10 witness: a raw score above 0.70 was displayed as 0.7 and found toxic.
C10_Witness ==
    /\ call.fn = "moderate"
    /\ result.done
    /\ call.data.has_text /\ call.data.text # << >>
    /\ call.scored.score > Threshold
    /\ result.confidence * 10 = Threshold
    /\ result.is_toxic

\* The request has no text: the key is absent or its value is empty.
NoText == ~call.data.has_text \/ call.data.text = << >>

\* The keys of the two endpoints' success responses.
SuccessKeys == {"is_toxic", "confidence", "label", "text_length", "sentiment", "emoji"}

\* C11: for an empty or absent text, /api/moderate and /api/sentiment
\* return the error object {"error": "No text provided"} and the model is
\* not invoked.
C11_EmptyTextShortCircuits ==
    (call.fn \in {"moderate", "sentiment"} /\ result.done /\ NoText) =>
        /\ result.kind = "error"
        /\ result.error = "No text provided"
        /\ DOMAIN result \cap SuccessKeys = {}
        /\ result.model_input = << >>

\* C11 witness: a request whose text key is absent has been answered.
C11_Witness ==
    /\ call.fn \in {"moderate", "sentiment"}
    /\ result.done
    /\ ~call.data.has_text
    /\ result.kind = "error"

\* C12: the emoji mapping is total: every label gets exactly one of the
\* three emojis, POSITIVE, NEGATIVE and NEUTRAL get their own, and every
\* other label gets the NEUTRAL emoji, without error.
C12_EmojiMappingTotal ==
    (call.fn = "sentiment" /\ result.done /\ ~NoText) =>
        /\ result.kind = "ok"
        /\ result.emoji \in {EmojiPositive, EmojiNegative, EmojiNeutral}
        /\ (call.scored.label = "POSITIVE" => result.emoji = EmojiPositive)
        /\ (call.scored.label = "NEGATIVE" => result.emoji = EmojiNegative)
        /\ (call.scored.label \notin {"POSITIVE", "NEGATIVE"} => result.emoji = EmojiNeutral)

\* C12 witness: a label the dict does not have was mapped to NEUTRAL.
C12_Witness ==
    /\ call.fn = "sentiment"
    /\ result.done
    /\ ~NoText
    /\ call.scored.label \notin {"POSITIVE", "NEGATIVE", "NEUTRAL"}
    /\ result.emoji = EmojiNeutral

\* C13: each field of an inbound frame is defaulted on its own: type is
\* the inbound type or "message" when absent, user is the inbound user or
\* "Anonymous" when absent, content is the inbound content unchanged or
\* null when absent, for every combination of present and absent fields.
C13_FieldsDefaultedIndependently ==
    (call.fn = "outbound" /\ result.done) =>
        /\ result.msg.type = (IF call.frame.type = Absent THEN "message" ELSE call.frame.type)
        /\ result.msg.user = (IF call.frame.user = Absent THEN "Anonymous" ELSE call.frame.user)
        /\ result.msg.content = (IF call.frame.content = Absent THEN null ELSE call.frame.content)
        /\ result.msg.timestamp = call.t

\* C13 witness: a frame with a user but no type and no content was built
\* into a dict with the user kept and the two others defaulted.
C13_Witness ==
    /\ call.fn = "outbound"
    /\ result.done
    /\ call.frame.type = Absent /\ call.frame.content = Absent /\ call.frame.user = "bob"
    /\ result.msg.type = "message" /\ result.msg.content = null /\ result.msg.user = "bob"

(***************************************************************************)
(* Properties of the registry under interleaving.                          *)
(***************************************************************************)
\* C15: the registry never holds the same handle twice, after any sequence
\* of connects, disconnects and broadcasts.
C15_NoDuplicateHandles ==
    \A i, j \in 1..Len(active_connections) :
        active_connections[i] = active_connections[j] => i = j

\* C15 witness: after a connect, a broadcast and a disconnect the registry
\* still holds a handle.
C15_Witness ==
    /\ \E c \in Conns : pc[c] = "done"
    /\ Len(fanouts) >= 1
    /\ Len(active_connections) >= 1

\* C16: a connection that is registered and open from the start to the end
\* of a fan-out receives its message, also when other connections are
\* registered or unregistered between two sends.  Stated of the fan-outs
\* whose loop ran to its end: a connection of the snapshot that is still
\* registered and open has been so all along.
C16_NoSkipOnConcurrentRemoval ==
    \A f \in FanIds :
        fanouts[f].status = "complete" =>
            \A c \in Range(fanouts[f].snapshot) :
                (c \in Registered /\ client_state[c] = "CONNECTED") => c \in Received(f)

\* C17: no connection receives the message of one fan-out more than once,
\* under every interleaving of connects and disconnects with the fan-out.
C17_NoDoubleDelivery ==
    \A f \in FanIds :
        \A i, j \in 1..Len(fanouts[f].recv) :
            fanouts[f].recv[i].to = fanouts[f].recv[j].to => i = j

\* C17 witness: a fan-out during which the registry changed has delivered
\* to two connections and ended.
C17_Witness ==
    \E f \in FanIds :
        /\ ~fanouts[f].quiet
        /\ fanouts[f].status = "complete"
        /\ Len(fanouts[f].recv) >= 2

\* C18: a handle leaves the registry only on the closure of that same
\* handle: a connection whose transport is open is never unregistered
\* because a delivery to another connection failed.
C18_RemovedOnlyOnOwnClosure ==
    [][ \A c \in Conns :
          (c \in Registered /\ c \notin Range(active_connections')) =>
            client_state[c] = "DISCONNECTED" ]_vars

\* The peer of c has closed and the handler of c has not ended yet.
PeerClosed(c) == client_state[c] = "DISCONNECTED" /\ pc[c] \in {"recv", "send"}

\* C14: after a peer closes its connection, the receive loop of that
\* connection eventually ends and its handle is eventually removed from the
\* registry, also when the close comes in the middle of the handler's own
\* fan-out; a closed connection never returns to open and its handle is
\* never inserted again.
C14_ClosedConnectionIsRetired ==
    /\ \A c \in Conns : PeerClosed(c) ~> (pc[c] \in Terminated /\ c \notin Registered)
    /\ [][ \A c \in Conns :
             /\ client_state[c] = "DISCONNECTED" => client_state'[c] = "DISCONNECTED"
             /\ (c \in Range(joined) /\ c \notin Registered)
                  => c \notin Range(active_connections') ]_vars

\* C19: per-sender FIFO.  A handler starts no fan-out before its previous
\* one has finished: in every step after which a later fan-out of the same
\* sender exists, the earlier one had finished before the step and delivers
\* nothing in it.  So every delivery of m1 precedes every delivery of m2,
\* and a receiver that gets both gets m1 first.
C19_PerSenderFifo ==
    [][ \A f1, f2 \in 1..(MaxFanouts + 1) :
          ( /\ f1 < f2
            /\ f2 <= Len(fanouts')
            /\ fanouts'[f1].sender = fanouts'[f2].sender )
          => /\ f1 <= Len(fanouts)
             /\ fanouts[f1].status # "running"
             /\ fanouts'[f1].recv = fanouts[f1].recv ]_vars

\* C19 witness: one receiver has got two messages of the same sender.
C19_Witness ==
    \E f1, f2 \in FanIds :
        /\ f1 < f2
        /\ fanouts[f1].sender = fanouts[f2].sender
        /\ Received(f1) \cap Received(f2) # {}

====
